---- MODULE Spec2Model ----
(***************************************************************************)
(* Model of datakart.core.sgis.Sgis: the SGIS client that caches an access *)
(* token, refreshes it lazily, and maps the upstream error envelope.       *)
(*                                                                         *)
(* Times are integers in milliseconds.  time.time() returns seconds, so   *)
(* the comparison  int(_timeout) / 1000 - 10 < time.time()  (true         *)
(* division) is the comparison  _timeout - 10 * 1000 < now  on            *)
(* milliseconds.  Python dicts are functions with a finite domain of      *)
(* string keys; Python strings that name tokens are sequences, "" = <<>>. *)
(* accessTimeout is modelled after decoding, as the integer int() yields. *)
(***************************************************************************)
EXTENDS Integers, Sequences, FiniteSets, TLC

VARIABLES
    self,        \* the instance's attributes (a dict: api_key, api_sec, _timeout, _token)
    now,         \* the clock read by time.time(), in milliseconds
    geopandas,   \* whether `import geopandas` succeeds in this runtime
    threads,     \* the threads that use the one client instance
    issued,      \* number of authentication requests the upstream has answered
    okId,        \* history: id of the latest auth response that passed raise_for_err_cd
    okResult,    \* history: the `result` of that response
    srcTimeout,  \* history: id of the response self._timeout was stored from (0: none)
    srcToken,    \* history: id of the response self._token was stored from (0: none)
    pc,          \* per thread: position in the code
    op,          \* per thread: the public operation the thread called
    tmo,         \* per thread: the value of self._timeout loaded at line 27
    checkedAt,   \* per thread: the value time.time() returned at line 27 (ms)
    judged,      \* per thread, history: id of the response `tmo` was stored from
    result,      \* per thread: auth()'s local `result`
    rid,         \* per thread, history: id of the response `result` came from
    authCnt,     \* per thread, history: auth requests sent during the current call
    dataCnt,     \* per thread, history: data requests sent during the current call
    snap,        \* per thread, history: what line 27 observed
    pre,         \* per thread, history: self when the current accessor call started
    envelope,    \* per thread, history: errCd/errMsg of the last body the call decoded
    body,        \* per thread, history: the last data body the call decoded
    ret          \* per thread: how the last call ended (value returned or exception)

vars == <<self, now, geopandas, threads, issued, okId, okResult, srcTimeout, srcToken,
          pc, op, tmo, checkedAt, judged, result, rid, authCnt, dataCnt, snap, pre,
          envelope, body, ret>>

----------------------------------------------------------------------------
(* Bounds of the model *)
MaxK == 2        \* clock values and expiries range over 0 .. MaxK margins
MaxAuth == 2     \* authentication requests answered in one behaviour

(* Program constants *)
MarginSec == 10  \* the "- 10" of line 27, seconds
MsPerSec == 1000 \* the "/ 1000" of line 27

MarginMs == MarginSec * MsPerSec

Threads == {"t1", "t2"}

\* Clock readings and upstream expiries: the multiples of the margin, and for
\* the clock also the millisecond after each.
TimePoints == {k * MarginMs + d : k \in 0..MaxK, d \in {0, 1}}
Expiries == {k * MarginMs : k \in 0..MaxK}

EmptyDict == <<>>
EmptyStr == <<>>

\* dict.get(key, default)
Get(d, k, default) == IF k \in DOMAIN d THEN d[k] ELSE default

\* setattr(obj, name, value)
SetAttr(obj, name, value) ==
    [a \in DOMAIN obj \cup {name} |-> IF a = name THEN value ELSE obj[a]]

\* hasattr(obj, name)
hasattr(obj, name) == name \in DOMAIN obj

NoErr == [type |-> "none"]

\* Variant: only positive codes are taken for errors.
raise_for_err_cd_Positive(parsed) ==
    LET err_cd == Get(parsed, "errCd", 0)
    IN  IF err_cd > 0
        THEN [type |-> "ValueError", err_cd |-> err_cd, errMsg |-> Get(parsed, "errMsg", "0")]
        ELSE NoErr

\* raise_for_err_cd: the exception raised for a decoded body, or NoErr.
\* `if err_cd:` is the test err_cd # 0 on the integer codes the service sends.
\* The message is f"[{err_cd}] {parsed.get('errMsg', 0)}".
raise_for_err_cd(parsed) ==
    LET err_cd == Get(parsed, "errCd", 0)
    IN  IF err_cd # 0
        THEN [type |-> "ValueError", err_cd |-> err_cd, errMsg |-> Get(parsed, "errMsg", "0")]
        ELSE NoErr

\* Variant: the margin is forgotten.
NeedsRefresh_NoMargin(timeout, t_now) == timeout < t_now

\* Variant: every read refreshes.
NeedsRefresh_Always(timeout, t_now) == TRUE

\* Variant: `<=` for `<`.
NeedsRefresh_NonStrict(timeout, t_now) == timeout - MarginSec * MsPerSec <= t_now

\* The freshness test of line 27, right operand of `or`.
NeedsRefresh(timeout, t_now) == timeout - MarginSec * MsPerSec < t_now

----------------------------------------------------------------------------
(* What the upstream can answer *)

\* The error envelopes: errCd nonzero, with or without errMsg.
ErrEnvelopes ==
    { [errCd |-> 4, errMsg |-> "bad key"], [errCd |-> -401] }

\* Answers to the authentication request number id.
AuthBodies(id) ==
    { [errCd |-> 0, result |-> [accessToken |-> <<id>>, accessTimeout |-> e]] : e \in Expiries }
    \cup { [result |-> [accessToken |-> <<id>>, accessTimeout |-> 0]] }
    \cup { [errCd |-> 0], [errCd |-> 0, result |-> EmptyDict] }
    \cup ErrEnvelopes
    \cup { [errCd |-> 4, errMsg |-> "bad key",
            result |-> [accessToken |-> <<id>>, accessTimeout |-> MarginMs]] }

\* requests.get / resp.json() can raise instead of yielding a body.
TransportErrors == { [type |-> "ConnectionError"], [type |-> "JSONDecodeError"] }

ResultDatas == { <<>>, <<[addr |-> "a"], [addr |-> "b"]>>, <<[addr |-> "b"], [addr |-> "a"]>> }

GeocodeBodies ==
    { [errCd |-> 0, result |-> [resultdata |-> rd]] : rd \in ResultDatas }
    \cup { [result |-> [resultdata |-> rd]] : rd \in ResultDatas }
    \cup { [errCd |-> 0, result |-> EmptyDict], [errCd |-> 0], [result |-> EmptyDict] }
    \cup ErrEnvelopes
    \cup { [errCd |-> 4, errMsg |-> "bad key", result |-> [resultdata |-> <<[addr |-> "a"]>>]] }

\* The boundary endpoint answers a feature collection (its columns) or an envelope.
HadmBodies ==
    { [type |-> "FeatureCollection", columns |-> {"geometry", "adm_cd", "x", "y"}],
      [type |-> "FeatureCollection", columns |-> {"geometry", "adm_cd"}],
      [type |-> "FeatureCollection", columns |-> {"geometry", "x", "y"}, errCd |-> 0],
      [type |-> "Garbage"] }
    \cup ErrEnvelopes

----------------------------------------------------------------------------
Idle == "idle"

\* Sgis(api_key, api_sec): lines 15-17 store the pair; nothing else exists yet.
Credentials == { [api_key |-> "key", api_sec |-> s] : s \in {"sec1", "sec2"} }

Init1 ==
    /\ self \in Credentials
    /\ now = 0
    /\ issued = 0
    /\ okId = 0
    /\ okResult = EmptyDict
    /\ srcTimeout = 0
    /\ srcToken = 0
    /\ pc = [t \in Threads |-> Idle]
    /\ op = [t \in Threads |-> "none"]
    /\ tmo = [t \in Threads |-> 0]
    /\ checkedAt = [t \in Threads |-> 0]
    /\ judged = [t \in Threads |-> 0]
    /\ envelope = [t \in Threads |-> EmptyDict]
    /\ body = [t \in Threads |-> EmptyDict]
    /\ result = [t \in Threads |-> EmptyDict]
    /\ rid = [t \in Threads |-> 0]
    /\ authCnt = [t \in Threads |-> 0]
    /\ dataCnt = [t \in Threads |-> 0]
    /\ snap = [t \in Threads |-> "none"]
    /\ pre = [t \in Threads |-> EmptyDict]
    /\ ret = [t \in Threads |-> [kind |-> "none"]]

\* Single-threaded use (section 5 of the design: the synchronous model).
Init == Init1 /\ geopandas \in BOOLEAN /\ threads = {"t1"}

\* One client instance used by one thread or shared by two.
InitMT == Init1 /\ self.api_sec = "sec1" /\ geopandas = FALSE /\ threads \in {{"t1"}, Threads}

----------------------------------------------------------------------------
(* How a call ends *)

\* An exception propagates out of the public operation.
Raise(t, e) ==
    /\ pc' = [pc EXCEPT ![t] = Idle]
    /\ ret' = [ret EXCEPT ![t] = [kind |-> "err", err |-> e]]
    /\ tmo' = [tmo EXCEPT ![t] = 0]
    /\ checkedAt' = [checkedAt EXCEPT ![t] = 0]
    /\ judged' = [judged EXCEPT ![t] = 0]
    /\ result' = [result EXCEPT ![t] = EmptyDict]
    /\ rid' = [rid EXCEPT ![t] = 0]

\* The public operation returns v.
Return(t, v) ==
    /\ pc' = [pc EXCEPT ![t] = Idle]
    /\ ret' = [ret EXCEPT ![t] = [kind |-> "ok", value |-> v]]
    /\ tmo' = [tmo EXCEPT ![t] = 0]
    /\ checkedAt' = [checkedAt EXCEPT ![t] = 0]
    /\ judged' = [judged EXCEPT ![t] = 0]
    /\ result' = [result EXCEPT ![t] = EmptyDict]
    /\ rid' = [rid EXCEPT ![t] = 0]

\* The three data-fetch operations.
Accessors == {"hadm_area", "geocode_wgs84", "geocode_utmk"}

\* A thread enters a public operation.
Enter(t, name, at) ==
    /\ t \in threads
    /\ pc[t] = Idle
    /\ op' = [op EXCEPT ![t] = name]
    /\ pc' = [pc EXCEPT ![t] = at]
    /\ authCnt' = [authCnt EXCEPT ![t] = 0]
    /\ dataCnt' = [dataCnt EXCEPT ![t] = 0]
    /\ snap' = [snap EXCEPT ![t] = "none"]
    /\ pre' = [pre EXCEPT ![t] = IF name \in Accessors THEN self ELSE EmptyDict]
    /\ envelope' = [envelope EXCEPT ![t] = EmptyDict]
    /\ body' = [body EXCEPT ![t] = EmptyDict]
    /\ ret' = [ret EXCEPT ![t] = [kind |-> "none"]]
    /\ UNCHANGED <<self, now, geopandas, threads, issued, okId, okResult, srcTimeout,
                   srcToken, tmo, checkedAt, judged, result, rid>>

----------------------------------------------------------------------------
(* Entry points *)

CallAuth(t) == Enter(t, "auth", "auth_req")

CallAccessToken(t) == Enter(t, "access_token", "at_check")

CallGeocodeWgs84(t) == Enter(t, "geocode_wgs84", "at_check")

CallGeocodeUtmk(t) == Enter(t, "geocode_utmk", "at_check")

\* Variant: the import is not checked before the token is fetched.
CallHadmArea_NoImportCheck(t) == Enter(t, "hadm_area", "at_check")

\* hadm_area starts with `import geopandas`; ImportError is re-raised at once.
CallHadmArea(t) ==
    IF geopandas
    THEN Enter(t, "hadm_area", "at_check")
    ELSE /\ t \in threads
         /\ pc[t] = Idle
         /\ op' = [op EXCEPT ![t] = "hadm_area"]
         /\ authCnt' = [authCnt EXCEPT ![t] = 0]
         /\ dataCnt' = [dataCnt EXCEPT ![t] = 0]
         /\ snap' = [snap EXCEPT ![t] = "none"]
         /\ pre' = [pre EXCEPT ![t] = self]
         /\ envelope' = [envelope EXCEPT ![t] = EmptyDict]
         /\ body' = [body EXCEPT ![t] = EmptyDict]
         /\ Raise(t, [type |-> "ImportError"])
         /\ UNCHANGED <<self, now, geopandas, threads, issued, okId, okResult,
                        srcTimeout, srcToken>>

----------------------------------------------------------------------------
(* access_token *)

\* Line 27, left of `<`: hasattr(self, "_token"), then the load of
\* self._timeout.  _token is never deleted, so the two reads are one step.
AccessTokenCheck(t) ==
    /\ t \in threads
    /\ pc[t] = "at_check"
    /\ IF ~hasattr(self, "_token")
       THEN /\ pc' = [pc EXCEPT ![t] = "auth_req"]
            /\ snap' = [snap EXCEPT ![t] = "absent"]
            /\ UNCHANGED <<tmo, judged>>
       ELSE /\ pc' = [pc EXCEPT ![t] = "at_cmp"]
            /\ tmo' = [tmo EXCEPT ![t] = self._timeout]
            /\ judged' = [judged EXCEPT ![t] = srcTimeout]
            /\ UNCHANGED snap
    /\ UNCHANGED <<self, now, geopandas, threads, issued, okId, okResult, srcTimeout,
                   srcToken, op, checkedAt, result, rid, authCnt, dataCnt, pre,
                   envelope, body, ret>>

\* History: where the clock stood against the margin-adjusted expiry when
\* line 27 read it.
Observed(timeout, t_now) ==
    IF t_now > timeout - MarginMs THEN "passed"
    ELSE IF t_now < timeout - MarginMs THEN "before"
    ELSE "boundary"

\* Line 27, right of `<`: time.time() and the comparison.
AccessTokenCompare(t) ==
    /\ t \in threads
    /\ pc[t] = "at_cmp"
    /\ snap' = [snap EXCEPT ![t] = Observed(tmo[t], now)]
    /\ IF NeedsRefresh(tmo[t], now)
       THEN /\ pc' = [pc EXCEPT ![t] = "auth_req"]
            /\ UNCHANGED checkedAt
            /\ judged' = [judged EXCEPT ![t] = 0]
       ELSE /\ pc' = [pc EXCEPT ![t] = "at_ret"]
            /\ checkedAt' = [checkedAt EXCEPT ![t] = now]
            /\ UNCHANGED judged
    /\ tmo' = [tmo EXCEPT ![t] = 0]
    /\ UNCHANGED <<self, now, geopandas, threads, issued, okId, okResult, srcTimeout,
                   srcToken, op, result, rid, authCnt, dataCnt, pre, envelope, body, ret>>

\* Line 29: return self._token, to the caller or into the accessor's params.
AccessTokenReturn(t) ==
    /\ t \in threads
    /\ pc[t] = "at_ret"
    /\ IF op[t] = "access_token"
       THEN Return(t, self._token)
       ELSE /\ pc' = [pc EXCEPT ![t] = "data_req"]
            /\ checkedAt' = [checkedAt EXCEPT ![t] = 0]
            /\ judged' = [judged EXCEPT ![t] = 0]
            /\ UNCHANGED <<ret, tmo, result, rid>>
    /\ UNCHANGED <<self, now, geopandas, threads, issued, okId, okResult, srcTimeout,
                   srcToken, op, authCnt, dataCnt, snap, pre, envelope, body>>

----------------------------------------------------------------------------
(* auth *)

\* The part of a decoded body that raise_for_err_cd reads.
Envelope(parsed) == [k \in DOMAIN parsed \cap {"errCd", "errMsg"} |-> parsed[k]]

\* Variant: a refresh waits while another thread is storing its own.
AuthReady_Locked(t) ==
    /\ pc[t] = "auth_req"
    /\ \A u \in threads \ {t} : pc[u] \notin {"auth_st_timeout", "auth_st_token"}

\* Line 28 / line 31: auth() runs as soon as it is called; there is no lock.
AuthReady(t) == pc[t] = "auth_req"

\* Variant: a failed authentication drops the cached token.
AuthFails_ClearsCache(t, e) ==
    /\ Raise(t, e)
    /\ self' = [a \in {"api_key", "api_sec"} |-> self[a]]
    /\ UNCHANGED <<srcTimeout, srcToken, okId, okResult, result, rid>>

\* Lines 35-37: an exception leaves auth() before lines 40-41 store anything.
AuthFails(t, e) ==
    /\ Raise(t, e)
    /\ UNCHANGED <<self, srcTimeout, srcToken, okId, okResult, result, rid>>

\* Lines 33-39: the GET, resp.json(), raise_for_err_cd, result = parsed.get(...).
AuthRequest(t) ==
    /\ t \in threads
    /\ AuthReady(t)
    /\ issued < MaxAuth
    /\ issued' = issued + 1
    /\ authCnt' = [authCnt EXCEPT ![t] = @ + 1]
    /\ \/ \E e \in TransportErrors :
             /\ AuthFails(t, e)
             /\ UNCHANGED envelope
       \/ \E parsed \in AuthBodies(issued + 1) :
             /\ envelope' = [envelope EXCEPT ![t] = Envelope(parsed)]
             /\ LET e == raise_for_err_cd(parsed)
                IN  IF e # NoErr
                    THEN AuthFails(t, e)
                    ELSE /\ result' = [result EXCEPT ![t] = Get(parsed, "result", EmptyDict)]
                         /\ rid' = [rid EXCEPT ![t] = issued + 1]
                         /\ okId' = issued + 1
                         /\ okResult' = Get(parsed, "result", EmptyDict)
                         /\ pc' = [pc EXCEPT ![t] = "auth_st_timeout"]
                         /\ UNCHANGED <<self, srcTimeout, srcToken, ret, tmo, checkedAt, judged>>
    /\ UNCHANGED <<now, geopandas, threads, op, dataCnt, snap, pre, body>>

\* Variant: an expiry earlier than the cached one is not stored.
AuthStoreTimeout_KeepLater(t) ==
    /\ t \in threads
    /\ pc[t] = "auth_st_timeout"
    /\ IF hasattr(self, "_timeout") /\ self._timeout >= Get(result[t], "accessTimeout", 0)
       THEN UNCHANGED <<self, srcTimeout>>
       ELSE /\ self' = SetAttr(self, "_timeout", Get(result[t], "accessTimeout", 0))
            /\ srcTimeout' = rid[t]
    /\ pc' = [pc EXCEPT ![t] = "auth_st_token"]
    /\ UNCHANGED <<now, geopandas, threads, issued, okId, okResult, srcToken, op, tmo,
                   checkedAt, judged, result, rid, authCnt, dataCnt, snap, pre,
                   envelope, body, ret>>

\* Line 40: self._timeout = result.get("accessTimeout", 0)
AuthStoreTimeout(t) ==
    /\ t \in threads
    /\ pc[t] = "auth_st_timeout"
    /\ self' = SetAttr(self, "_timeout", Get(result[t], "accessTimeout", 0))
    /\ srcTimeout' = rid[t]
    /\ pc' = [pc EXCEPT ![t] = "auth_st_token"]
    /\ UNCHANGED <<now, geopandas, threads, issued, okId, okResult, srcToken, op, tmo,
                   checkedAt, judged, result, rid, authCnt, dataCnt, snap, pre,
                   envelope, body, ret>>

\* Variant: a token already cached is kept.
AuthStoreToken_IfAbsent(t) ==
    /\ t \in threads
    /\ pc[t] = "auth_st_token"
    /\ IF hasattr(self, "_token")
       THEN UNCHANGED <<self, srcToken>>
       ELSE /\ self' = SetAttr(self, "_token", Get(result[t], "accessToken", EmptyStr))
            /\ srcToken' = rid[t]
    /\ IF op[t] = "auth"
       THEN Return(t, result[t])
       ELSE /\ pc' = [pc EXCEPT ![t] = "at_ret"]
            /\ result' = [result EXCEPT ![t] = EmptyDict]
            /\ rid' = [rid EXCEPT ![t] = 0]
            /\ UNCHANGED <<ret, tmo, checkedAt, judged>>
    /\ UNCHANGED <<now, geopandas, threads, issued, okId, okResult, srcTimeout, op,
                   authCnt, dataCnt, snap, pre, envelope, body>>

\* Lines 41-42: self._token = result.get("accessToken", ""); return result
AuthStoreToken(t) ==
    /\ t \in threads
    /\ pc[t] = "auth_st_token"
    /\ self' = SetAttr(self, "_token", Get(result[t], "accessToken", EmptyStr))
    /\ srcToken' = rid[t]
    /\ IF op[t] = "auth"
       THEN Return(t, result[t])
       ELSE /\ pc' = [pc EXCEPT ![t] = "at_ret"]
            /\ result' = [result EXCEPT ![t] = EmptyDict]
            /\ rid' = [rid EXCEPT ![t] = 0]
            /\ UNCHANGED <<ret, tmo, checkedAt, judged>>
    /\ UNCHANGED <<now, geopandas, threads, issued, okId, okResult, srcTimeout, op,
                   authCnt, dataCnt, snap, pre, envelope, body>>

----------------------------------------------------------------------------
(* the accessors' data request *)

\* Variant: resultdata is looked up in the body, not under "result".
GeocodeResult_TopLevel(parsed) == Get(parsed, "resultdata", <<>>)

\* Lines 108-109 and 135-136: result.get("resultdata", []) of parsed.get("result", {})
GeocodeResult(parsed) == Get(Get(parsed, "result", EmptyDict), "resultdata", <<>>)

\* Lines 80-82: read_file, set_crs, drop(columns=["x","y"]), to_json(to_wgs84=True).
HadmResult(parsed) ==
    IF Get(parsed, "type", "") # "FeatureCollection"
    THEN [kind |-> "err", err |-> [type |-> "DataSourceError"]]
    ELSE IF ~({"x", "y"} \subseteq parsed.columns)
    THEN [kind |-> "err", err |-> [type |-> "KeyError"]]
    ELSE [kind |-> "ok",
          value |-> [type |-> "FeatureCollection", crs |-> "EPSG:4326",
                     columns |-> parsed.columns \ {"x", "y"}]]

DataBodies(name) == IF name = "hadm_area" THEN HadmBodies ELSE GeocodeBodies

\* Lines 76-82, 104-109, 131-136: the GET, resp.json(), raise_for_err_cd, the result.
\* The GET goes through `session` when one is given and through requests.get
\* otherwise; adm_cd, address, page and limit only shape the query string.
DataRequest(t) ==
    /\ t \in threads
    /\ pc[t] = "data_req"
    /\ dataCnt' = [dataCnt EXCEPT ![t] = @ + 1]
    /\ \/ \E e \in TransportErrors :
             /\ Raise(t, e)
             /\ UNCHANGED <<envelope, body>>
       \/ \E parsed \in DataBodies(op[t]) :
             /\ envelope' = [envelope EXCEPT ![t] = Envelope(parsed)]
             /\ body' = [body EXCEPT ![t] = parsed]
             /\ LET e == raise_for_err_cd(parsed)
                IN  IF e # NoErr
                    THEN Raise(t, e)
                    ELSE IF op[t] = "hadm_area"
                    THEN LET r == HadmResult(parsed)
                         IN  IF r.kind = "err" THEN Raise(t, r.err) ELSE Return(t, r.value)
                    ELSE Return(t, GeocodeResult(parsed))
    /\ UNCHANGED <<self, now, geopandas, threads, issued, okId, okResult, srcTimeout,
                   srcToken, op, authCnt, snap, pre>>

----------------------------------------------------------------------------
\* The clock never goes back.
Tick ==
    /\ \E p \in TimePoints : p > now /\ now' = p
    /\ UNCHANGED <<self, geopandas, threads, issued, okId, okResult, srcTimeout, srcToken,
                   pc, op, tmo, checkedAt, judged, result, rid, authCnt, dataCnt, snap,
                   pre, envelope, body, ret>>

Next ==
    \/ Tick
    \/ \E t \in Threads :
          \/ CallAuth(t)
          \/ CallAccessToken(t)
          \/ CallGeocodeWgs84(t)
          \/ CallGeocodeUtmk(t)
          \/ CallHadmArea(t)
          \/ AccessTokenCheck(t)
          \/ AccessTokenCompare(t)
          \/ AccessTokenReturn(t)
          \/ AuthRequest(t)
          \/ AuthStoreTimeout(t)
          \/ AuthStoreToken(t)
          \/ DataRequest(t)

Spec == Init /\ [][Next]_vars

\* Two threads interleaving auth() and access_token on the shared instance.
NextMT ==
    \/ Tick
    \/ \E t \in Threads :
          \/ CallAuth(t)
          \/ CallAccessToken(t)
          \/ AccessTokenCheck(t)
          \/ AccessTokenCompare(t)
          \/ AccessTokenReturn(t)
          \/ AuthRequest(t)
          \/ AuthStoreTimeout(t)
          \/ AuthStoreToken(t)

SpecMT == InitMT /\ [][NextMT]_vars

----------------------------------------------------------------------------
(* Properties *)

Geocodes == {"geocode_wgs84", "geocode_utmk"}

\* The call of thread t has ended.
Ended(t) == pc[t] = Idle /\ ret[t].kind # "none"

\* The error raise_for_err_cd builds from an envelope.
RemoteError(env) ==
    [type |-> "ValueError", err_cd |-> env.errCd, errMsg |-> Get(env, "errMsg", "0")]

\* C1 as stated: whenever access_token is about to return (line 29), the
\* cached token is unexpired: the clock is before the cached expiry.
C1_NeverExpired ==
    \A t \in threads : pc[t] = "at_ret" => now < self._timeout

\* C1 amended: a token returned without a refresh is unexpired at the return
\* if less than the margin has passed since line 27 read the clock; a token
\* returned after a refresh is the pair of the latest successful response,
\* whatever its expiry.
C1_FreshWithinMargin ==
    \A t \in threads : pc[t] = "at_ret" =>
        /\ authCnt[t] \in {0, 1}
        /\ authCnt[t] = 0 => (now - checkedAt[t] < MarginMs => now < self._timeout)
        /\ authCnt[t] = 1 =>
              /\ self._timeout = Get(okResult, "accessTimeout", 0)
              /\ self._token = Get(okResult, "accessToken", EmptyStr)

\* A read that skipped the refresh returns, some time after the check, a
\* token that is still unexpired.
C1_Witness ==
    \E t \in threads :
        /\ pc[t] = "at_ret"
        /\ authCnt[t] = 0
        /\ now > checkedAt[t]
        /\ now < self._timeout

\* C2: a read of access_token that found no token, or found the clock past the
\* margin-adjusted expiry, made exactly one auth() call; a read that found the
\* clock before the margin-adjusted expiry made none.
C2_RefreshCount ==
    \A t \in threads :
        (op[t] # "auth" /\ pc[t] \in {"at_ret", "data_req", Idle}) =>
            /\ snap[t] \in {"absent", "passed"} => authCnt[t] = 1
            /\ snap[t] = "before" => authCnt[t] = 0

\* A read found the cached token past its margin, refreshed once and returned.
C2_Witness ==
    \E t \in threads :
        /\ Ended(t)
        /\ op[t] = "access_token"
        /\ ret[t].kind = "ok"
        /\ snap[t] = "passed"
        /\ authCnt[t] = 1

\* Line 27 compared the clock with a cached expiry.
Compared(t) == snap[t] \in {"before", "boundary", "passed"}

\* The read went on without calling auth().
Skipped(t) == authCnt[t] = 0 /\ pc[t] # "auth_req"

\* C3 as stated: access_token skips the refresh iff now < expiry - 10000.
C3_StrictIff ==
    \A t \in threads : Compared(t) => (Skipped(t) <=> snap[t] = "before")

\* C3 amended: access_token skips the refresh iff now <= expiry - 10000; at
\* the boundary now = expiry - 10000 the cached token is still taken as valid.
C3_NonStrictIff ==
    \A t \in threads : Compared(t) => (Skipped(t) <=> snap[t] \in {"before", "boundary"})

\* A read at the boundary now = expiry - 10000 skipped the refresh.
C3_Witness ==
    \E t \in threads :
        /\ pc[t] = "at_ret"
        /\ authCnt[t] = 0
        /\ snap[t] = "boundary"
        /\ now = self._timeout - MarginMs

\* C4: in auth, hadm_area, geocode_wgs84 and geocode_utmk alike, a decoded
\* body with a nonzero errCd ends the operation at once with the ValueError
\* that carries that errCd and errMsg, and no operation ends with that error
\* unless the last body it decoded had a nonzero errCd.
C4_ErrCdRaises ==
    \A t \in threads :
        /\ Get(envelope[t], "errCd", 0) # 0 =>
              /\ pc[t] = Idle
              /\ ret[t] = [kind |-> "err", err |-> RemoteError(envelope[t])]
        /\ (Ended(t) /\ ret[t].kind = "err" /\ ret[t].err.type = "ValueError") =>
              Get(envelope[t], "errCd", 0) # 0

\* hadm_area got {"errCd": 4, "errMsg": "bad key"} and failed with it.
C4_Witness ==
    \E t \in threads :
        /\ Ended(t)
        /\ op[t] = "hadm_area"
        /\ dataCnt[t] = 1
        /\ envelope[t] = [errCd |-> 4, errMsg |-> "bad key"]
        /\ ret[t] = [kind |-> "err",
                     err |-> [type |-> "ValueError", err_cd |-> 4, errMsg |-> "bad key"]]

\* C5: outside auth()'s two stores the client holds the token and the expiry
\* of the latest successful auth response, and a read that returns, returns
\* that token.
C5_LastWriteWins ==
    \A t \in threads :
        /\ (okId > 0 /\ pc[t] \notin {"auth_st_timeout", "auth_st_token"}) =>
              /\ hasattr(self, "_token") /\ hasattr(self, "_timeout")
              /\ self._token = Get(okResult, "accessToken", EmptyStr)
              /\ self._timeout = Get(okResult, "accessTimeout", 0)
              /\ srcToken = okId /\ srcTimeout = okId
        /\ (Ended(t) /\ op[t] = "access_token" /\ ret[t].kind = "ok") =>
              ret[t].value = Get(okResult, "accessToken", EmptyStr)

\* auth() returned for the second time and the client holds the second token.
C5_Witness ==
    \E t \in threads :
        /\ Ended(t)
        /\ op[t] = "auth"
        /\ ret[t].kind = "ok"
        /\ okId = 2
        /\ self._token = <<2>>
        /\ ret[t].value = okResult

\* C6: a geocode call whose body carries no error returns the body's
\* resultdata as it is, and the empty sequence when there is none.
C6_ResultData ==
    \A t \in threads :
        (Ended(t) /\ op[t] \in Geocodes /\ body[t] # EmptyDict
                  /\ Get(body[t], "errCd", 0) = 0) =>
            ret[t] = [kind |-> "ok",
                      value |-> IF "result" \in DOMAIN body[t]
                                   /\ "resultdata" \in DOMAIN body[t].result
                                THEN body[t].result.resultdata
                                ELSE <<>>]

\* geocode_utmk got {"errCd": 0, "result": {}} and returned [].
C6_Witness ==
    \E t \in threads :
        /\ Ended(t)
        /\ op[t] = "geocode_utmk"
        /\ body[t] = [errCd |-> 0, result |-> EmptyDict]
        /\ ret[t] = [kind |-> "ok", value |-> <<>>]

\* C7: without geopandas hadm_area never gets past its import: it ends with
\* ImportError, has sent no request and has left the instance as it was; and
\* ImportError comes from no other operation.
C7_ImportFirst ==
    \A t \in threads :
        /\ (op[t] = "hadm_area" /\ ~geopandas) =>
              /\ pc[t] = Idle
              /\ ret[t] = [kind |-> "err", err |-> [type |-> "ImportError"]]
              /\ authCnt[t] = 0 /\ dataCnt[t] = 0
              /\ self = pre[t]
        /\ (ret[t].kind = "err" /\ ret[t].err.type = "ImportError") =>
              op[t] = "hadm_area" /\ ~geopandas

\* hadm_area failed on the import although the cached token was due a refresh.
C7_Witness ==
    \E t \in threads :
        /\ op[t] = "hadm_area"
        /\ ret[t] = [kind |-> "err", err |-> [type |-> "ImportError"]]
        /\ hasattr(self, "_token")
        /\ NeedsRefresh(self._timeout, now)
        /\ issued = 1

C9_NoRetry ==
    \A t \in threads : op[t] \in Accessors =>
        /\ authCnt[t] <= 1 /\ dataCnt[t] <= 1
        /\ dataCnt[t] = 1 => pc[t] = Idle
        /\ (pc[t] = Idle /\ dataCnt[t] = 0) =>
              /\ ret[t].kind = "err"
              /\ self = pre[t]
              /\ authCnt[t] = 1 =>
                    ret[t].err.type \in {"ValueError", "ConnectionError", "JSONDecodeError"}
        /\ (pc[t] = Idle /\ dataCnt[t] = 1) =>
              /\ hasattr(self, "_token")
              /\ authCnt[t] = 0 => self = pre[t]
              /\ authCnt[t] = 1 => srcToken = okId /\ srcTimeout = okId

\* A geocode call found the cached token stale, its refresh failed, and the
\* call ended with that error, no data request, and the old token still cached.
C9_Witness ==
    \E t \in threads :
        /\ Ended(t)
        /\ op[t] \in Geocodes
        /\ authCnt[t] = 1
        /\ dataCnt[t] = 0
        /\ ret[t].kind = "err"
        /\ hasattr(self, "_token")

\* C10 as stated: a read that is about to return the cached token as fresh
\* never returns a token older than the response whose expiry it judged.
C10_NoOlderToken ==
    \A t \in threads : (pc[t] = "at_ret" /\ authCnt[t] = 0) => ~(srcToken < judged[t])

\* C10 amended: with a single thread, at the comparison and at the return of
\* access_token the cached token and expiry come from the same response, the
\* one whose expiry was judged.
C10_SingleThreadPair ==
    Cardinality(threads) = 1 =>
        \A t \in threads : pc[t] \in {"at_cmp", "at_ret"} =>
            /\ srcToken = srcTimeout
            /\ authCnt[t] = 0 => judged[t] = srcToken

\* The single thread returns, as fresh, the token of the second response.
C10_Witness ==
    /\ Cardinality(threads) = 1
    /\ \E t \in threads :
          /\ pc[t] = "at_ret"
          /\ authCnt[t] = 0
          /\ judged[t] = 2
          /\ srcToken = 2

====
